---- MODULE Spec2Model ----
\* Model of src/main.py: the HTTP Cloud Function mtg_card_tool and its helper
\* get_mtg_card_info, which forwards a card-name lookup to the public
\* magicthegathering.io API.
\*
\* Library behaviour the model relies on (Flask/werkzeug and requests, as a
\* current install of the unpinned dependencies provides them):
\*   - request.is_json: mimetype is application/json or application/*+json;
\*   - request.get_json(silent=True): the parsed body, None when unparsable;
\*   - requests.get raises a RequestException on network failure or timeout;
\*   - response.raise_for_status raises HTTPError (a RequestException) exactly
\*     for 400 <= status < 600;
\*   - response.json raises requests.exceptions.JSONDecodeError (a
\*     RequestException) on an unparsable body;
\*   - an exception leaving the handler is answered by the framework with 500.
EXTENDS Integers, Sequences, FiniteSets, TLC

\* ---------------------------------------------------------------- bounds
MaxRequests == 2   \* requests served one after the other
MaxCards == 2      \* longest upstream `cards` array

\* ----------------------------------------------------------- JSON values
\* A parsed JSON value (a Python object) is a tagged record.  A string is the
\* sequence of its pieces (a piece stands for a run of characters), an object
\* is a record over the keys the model uses whose value is Absent where the
\* key is missing.
Absent == [t |-> "absent"]
JNull == [t |-> "null"]
JBool(b) == [t |-> "bool", b |-> b]
JNum(n) == [t |-> "num", n |-> n]
JStr(s) == [t |-> "str", s |-> s]
JArr(items) == [t |-> "arr", items |-> items]
JObj(fields) == [t |-> "obj", fields |-> fields]

\* Python truthiness: `not x` is ~Truthy(x)
Truthy(v) ==
    CASE v.t = "null" -> FALSE
      [] v.t = "bool" -> v.b
      [] v.t = "num" -> v.n # 0
      [] v.t = "str" -> Len(v.s) > 0
      [] v.t = "arr" -> Len(v.items) > 0
      [] v.t = "obj" -> \E k \in DOMAIN v.fields : v.fields[k] # Absent

\* key in d, for a dict d
HasKey(d, k) == k \in DOMAIN d.fields /\ d.fields[k] # Absent

\* d.get(k) for a dict d: the value, None when the key is missing
DictGet(d, k) == IF HasKey(d, k) THEN d.fields[k] ELSE JNull

\* str(v) as the f-string of line 90 formats it
PyStr(v) ==
    CASE v.t = "null" -> <<"None">>
      [] v.t = "bool" -> IF v.b THEN <<"True">> ELSE <<"False">>
      [] v.t = "num" -> <<ToString(v.n)>>
      [] v.t = "str" -> v.s
      [] OTHER -> <<"repr">>

\* ------------------------------------------------------ inbound requests
\* A mimetype main/sub or main/sub+suffix; all fields empty when the request
\* carries no Content-Type.
Mime(main, sub, suffix) == [main |-> main, sub |-> sub, suffix |-> suffix]

Methods == {"POST", "GET", "PUT"}

Mimetypes ==
    { Mime("application", "json", ""), Mime("application", "vnd.api", "json"),
      Mime("application", "xml", ""), Mime("text", "json", ""),
      Mime("text", "x", "json"), Mime("text", "plain", ""), Mime("", "", "") }

\* the values the model sends under the key card_name
CardNames ==
    { JStr(<<>>), JStr(<<"Black Lotus">>), JStr(<<"Nonexistent Card XYZ">>),
      JNull, JNum(7), JBool(FALSE) }

\* a request body: the parsed value when the body is valid JSON
Body(valid, json) == [valid |-> valid, json |-> json]

ReqObject(card, other) == JObj([card_name |-> card, other |-> other])

RequestJsons ==
    { JNull, JBool(TRUE), JBool(FALSE), JNum(0), JNum(5),
      JStr(<<>>), JStr(<<"abc">>), JStr(<<"my ", "card_name">>),
      JArr(<<>>), JArr(<<JNum(1)>>), JArr(<<JStr(<<"card_name">>)>>) }
    \cup { ReqObject(c, o) : c \in CardNames \cup {Absent}, o \in {Absent, JNum(1)} }

Bodies == { Body(FALSE, JNull) } \cup { Body(TRUE, j) : j \in RequestJsons }

Requests == [method : Methods, mimetype : Mimetypes, body : Bodies]

\* ------------------------------------------------------ upstream outcomes
Card(name, manaCost, type, text, power, toughness, imageUrl) ==
    JObj([name |-> name, manaCost |-> manaCost, type |-> type, text |-> text,
          power |-> power, toughness |-> toughness, imageUrl |-> imageUrl])

BlackLotus ==
    Card(JStr(<<"Black Lotus">>), JStr(<<"{0}">>), JStr(<<"Artifact">>),
         JStr(<<"...">>), JNull, JNull, JStr(<<"http://...">>))

SerraAngel ==
    Card(JStr(<<"Serra Angel">>), JStr(<<"{3}{W}{W}">>), JStr(<<"Creature">>),
         JStr(<<"Flying, vigilance">>), JStr(<<"4">>), JStr(<<"5">>), Absent)

NameOnly == Card(JStr(<<"Forest">>), Absent, Absent, Absent, Absent, Absent, Absent)

NoFields == Card(Absent, Absent, Absent, Absent, Absent, Absent, Absent)

\* what an element of the upstream `cards` array may be
CardElements == { BlackLotus, SerraAngel, NameOnly, NoFields, JNum(5), JNull }

CardArrays == UNION { [1..k -> CardElements] : k \in 0..MaxCards }

\* what the upstream may put under the key `cards` (Absent: no such key)
CardsValues ==
    { JArr(a) : a \in CardArrays }
    \cup { Absent, JNull, JStr(<<>>), JStr(<<"x", "y">>), JNum(0), JNum(3),
           JBool(TRUE), JBool(FALSE), NoFields, NameOnly }

UpObject(cards, other) == JObj([cards |-> cards, other |-> other])

UpstreamJsons ==
    { UpObject(c, Absent) : c \in CardsValues }
    \cup { UpObject(Absent, JNum(1)), UpObject(JArr(<<SerraAngel>>), JNum(1)) }
    \cup { JNull, JArr(<<>>), JArr(<<BlackLotus>>), JStr(<<"error">>), JNum(1),
           JBool(TRUE) }

UpstreamStatuses == {200, 300, 404, 500}

\* requests.get either raises (network failure, timeout) or returns a response
Outcome(kind, status, body) == [kind |-> kind, status |-> status, body |-> body]

UpstreamOutcomes ==
    { Outcome("exception", 0, Body(FALSE, JNull)) }
    \cup { Outcome("response", s, b) :
             s \in UpstreamStatuses,
             b \in { Body(FALSE, JNull) } \cup { Body(TRUE, j) : j \in UpstreamJsons } }

\* -------------------------------------------------------------- handler
\* request.is_json (line 70)
is_json_any_main(mt) == mt.sub = "json" \/ mt.suffix = "json"

is_json(mt) ==
    \/ mt.main = "application" /\ mt.sub = "json" /\ mt.suffix = ""
    \/ mt.main = "application" /\ mt.suffix = "json"

\* request.get_json(silent=True) (line 74): None for an unparsable body
get_json(body) == IF body.valid THEN body.json ELSE JNull

\* "card_name" in v (line 77) for an iterable v: a key of a dict, an element
\* of a list, a substring of a str
Contains(v, k) ==
    CASE v.t = "obj" -> HasKey(v, k)
      [] v.t = "arr" -> \E i \in 1..Len(v.items) : v.items[i] = JStr(<<k>>)
      [] v.t = "str" -> \E i \in 1..Len(v.s) : v.s[i] = k
      [] OTHER -> FALSE

ErrorBody(message) == [error |-> message]

MsgMethod == <<"Invalid request method. Please use POST.">>
MsgContentType == <<"Invalid content type. Please send a JSON payload.">>
MsgMissing == <<"Missing 'card_name' in JSON payload.">>
MsgNotFound(card) ==
    <<"Card '">> \o PyStr(card) \o <<"' not found or API is unavailable.">>

\* what the code before the lookup decides: a response, an exception leaving
\* the handler, or the lookup of a card name
Respond(status, body) ==
    [outcome |-> "respond", status |-> status, body |-> body, card_name |-> JNull]
Raise(exception) ==
    [outcome |-> "raise", status |-> 500, body |-> [exception |-> exception],
     card_name |-> JNull]
Lookup(card) ==
    [outcome |-> "lookup", status |-> 0, body |-> [exception |-> ""],
     card_name |-> card]

\* lines 67-80 with the content-type check ahead of the method check
mtg_card_tool_checks_type_first(req) ==
    LET request_json == get_json(req.body) IN
    IF ~is_json(req.mimetype) THEN Respond(415, ErrorBody(MsgContentType))
    ELSE IF req.method # "POST" THEN Respond(405, ErrorBody(MsgMethod))
    ELSE IF ~Truthy(request_json) THEN Respond(400, ErrorBody(MsgMissing))
    ELSE IF request_json.t \in {"num", "bool"} THEN Raise("TypeError")
    ELSE IF ~Contains(request_json, "card_name")
         THEN Respond(400, ErrorBody(MsgMissing))
    ELSE IF request_json.t # "obj" THEN Raise("TypeError")
    ELSE Lookup(request_json.fields["card_name"])

\* lines 67-80 with an empty card_name rejected like a missing one
mtg_card_tool_checks_truthy_name(req) ==
    LET request_json == get_json(req.body) IN
    IF req.method # "POST" THEN Respond(405, ErrorBody(MsgMethod))
    ELSE IF ~is_json(req.mimetype) THEN Respond(415, ErrorBody(MsgContentType))
    ELSE IF ~Truthy(request_json) THEN Respond(400, ErrorBody(MsgMissing))
    ELSE IF request_json.t \in {"num", "bool"} THEN Raise("TypeError")
    ELSE IF ~Contains(request_json, "card_name")
         THEN Respond(400, ErrorBody(MsgMissing))
    ELSE IF request_json.t # "obj" THEN Raise("TypeError")
    ELSE IF ~Truthy(request_json.fields["card_name"])
         THEN Respond(400, ErrorBody(MsgMissing))
    ELSE Lookup(request_json.fields["card_name"])

\* lines 67-80 of mtg_card_tool
mtg_card_tool_checks(req) ==
    LET request_json == get_json(req.body) IN
    IF req.method # "POST" THEN Respond(405, ErrorBody(MsgMethod))
    ELSE IF ~is_json(req.mimetype) THEN Respond(415, ErrorBody(MsgContentType))
    ELSE IF ~Truthy(request_json) THEN Respond(400, ErrorBody(MsgMissing))
    \* `in` applied to an int or a bool: TypeError, not iterable
    ELSE IF request_json.t \in {"num", "bool"} THEN Raise("TypeError")
    ELSE IF ~Contains(request_json, "card_name")
         THEN Respond(400, ErrorBody(MsgMissing))
    \* line 80: a str or a list indexed by a str raises TypeError
    ELSE IF request_json.t # "obj" THEN Raise("TypeError")
    ELSE Lookup(request_json.fields["card_name"])

\* --------------------------------------------------------------- lookup
\* response.raise_for_status() (line 23) raises for 4xx and 5xx
raise_for_status_5xx(status) == 500 <= status /\ status < 600

raise_for_status(status) == 400 <= status /\ status < 600

Return(value) == [raised |-> "", value |-> value]
Raised(exception) == [raised |-> exception, value |-> JNull]

\* lines 34-42: the dict built from the first card
CardInfo(card_data) ==
    JObj([name |-> DictGet(card_data, "name"),
          mana_cost |-> DictGet(card_data, "manaCost"),
          type |-> DictGet(card_data, "type"),
          text |-> DictGet(card_data, "text"),
          power |-> DictGet(card_data, "power"),
          toughness |-> DictGet(card_data, "toughness"),
          image_url |-> DictGet(card_data, "imageUrl")])

\* cards[0] (line 31) for a non-empty list or str
first_of_last(cards) ==
    IF cards.t = "arr" THEN cards.items[Len(cards.items)]
    ELSE JStr(<<cards.s[Len(cards.s)]>>)

first_of(cards) ==
    IF cards.t = "arr" THEN cards.items[1] ELSE JStr(<<cards.s[1]>>)

\* the try block, lines 22-43, given what requests.get did: the value
\* returned or the exception raised in it
get_mtg_card_info_try(u) ==
    \* requests.get raised: ConnectionError, Timeout, ...
    IF u.kind = "exception" THEN Raised("ConnectionError")
    ELSE IF raise_for_status(u.status) THEN Raised("HTTPError")
    ELSE IF ~u.body.valid THEN Raised("JSONDecodeError")
    ELSE LET data == u.body.json IN
    \* data.get on a list, str, number, bool or None
    IF data.t # "obj" THEN Raised("AttributeError")
    ELSE LET cards == DictGet(data, "cards") IN
    IF ~Truthy(cards) THEN Return(JNull)
    \* cards[0] on a number or bool: not subscriptable
    ELSE IF cards.t \in {"num", "bool"} THEN Raised("TypeError")
    \* cards[0] on a dict, whose keys are strings
    ELSE IF cards.t = "obj" THEN Raised("KeyError")
    ELSE LET card_data == first_of(cards) IN
    \* card_data.get on anything but a dict
    IF card_data.t # "obj" THEN Raised("AttributeError")
    ELSE Return(CardInfo(card_data))

\* the except clauses, lines 45-50: RequestException and its subclasses,
\* KeyError, IndexError
caught_without_decode(exception) ==
    exception \in {"ConnectionError", "HTTPError", "KeyError", "IndexError"}

caught(exception) ==
    exception \in {"ConnectionError", "HTTPError", "JSONDecodeError",
                   "KeyError", "IndexError"}

\* lines 21-50 of get_mtg_card_info: the value returned, or the exception
\* that leaves the function
get_mtg_card_info(u) ==
    LET r == get_mtg_card_info_try(u) IN
    IF r.raised # "" /\ caught(r.raised) THEN Return(JNull) ELSE r

Response(status, body) == [status |-> status, body |-> body]

\* lines 85-91 of mtg_card_tool, given what get_mtg_card_info did
mtg_card_tool_reply(card, result) ==
    IF result.raised # "" THEN Response(500, [exception |-> result.raised])
    ELSE IF Truthy(result.value) THEN Response(200, result.value.fields)
    ELSE Response(404, ErrorBody(MsgNotFound(card)))

\* ---------------------------------------------------------------- state
VARIABLES
    pc,         \* "idle", "handling", "waiting" (inside requests.get), "done"
    request,    \* the inbound request being served
    card_name,  \* the local card_name of mtg_card_tool
    get_params, \* the params of the outbound GETs of this request, in order
    upstream,   \* what requests.get did
    lookup,     \* what get_mtg_card_info did
    response,   \* the HTTP response of this request
    sent,       \* responses sent for this request
    outbound,   \* outbound GETs issued since start
    served      \* requests received since start

vars == <<pc, request, card_name, get_params, upstream, lookup, response, sent,
          outbound, served>>

NoRequest == [method |-> "", mimetype |-> Mime("", "", ""), body |-> Body(FALSE, JNull)]
NoOutcome == Outcome("none", 0, Body(FALSE, JNull))
NoResult == [raised |-> "none", value |-> JNull]
NoResponse == Response(0, [exception |-> ""])

Init ==
    /\ pc = "idle"
    /\ request = NoRequest
    /\ card_name = JNull
    /\ get_params = <<>>
    /\ upstream = NoOutcome
    /\ lookup = NoResult
    /\ response = NoResponse
    /\ sent = 0
    /\ outbound = 0
    /\ served = 0

\* the framework hands a request to mtg_card_tool
receive(req) ==
    /\ pc = "idle"
    /\ served < MaxRequests
    /\ pc' = "handling"
    /\ request' = req
    /\ card_name' = JNull
    /\ get_params' = <<>>
    /\ upstream' = NoOutcome
    /\ lookup' = NoResult
    /\ response' = NoResponse
    /\ sent' = 0
    /\ served' = served + 1
    /\ UNCHANGED outbound

\* mtg_card_tool with the outbound GET issued ahead of the checks
mtg_card_tool_begin_get_first ==
    /\ pc = "handling"
    /\ LET v == mtg_card_tool_checks(request) IN
       /\ get_params' = Append(get_params, [name |-> v.card_name])
       /\ outbound' = outbound + 1
       /\ IF v.outcome = "lookup"
          THEN /\ pc' = "waiting"
               /\ card_name' = v.card_name
               /\ UNCHANGED <<response, sent>>
          ELSE /\ pc' = "done"
               /\ response' = Response(v.status, v.body)
               /\ sent' = sent + 1
               /\ UNCHANGED card_name
    /\ UNCHANGED <<request, upstream, lookup, served>>

\* mtg_card_tool up to the requests.get call of line 22: an early return, an
\* exception, or the outbound GET issued
mtg_card_tool_begin ==
    /\ pc = "handling"
    /\ LET v == mtg_card_tool_checks(request) IN
       IF v.outcome = "lookup"
       THEN /\ pc' = "waiting"
            /\ card_name' = v.card_name
            /\ get_params' = Append(get_params, [name |-> v.card_name])
            /\ outbound' = outbound + 1
            /\ UNCHANGED <<response, sent>>
       ELSE /\ pc' = "done"
            /\ response' = Response(v.status, v.body)
            /\ sent' = sent + 1
            /\ UNCHANGED <<card_name, get_params, outbound>>
    /\ UNCHANGED <<request, upstream, lookup, served>>

\* requests.get returns or raises; the rest of get_mtg_card_info and of
\* mtg_card_tool runs
mtg_card_tool_end(u) ==
    /\ pc = "waiting"
    /\ pc' = "done"
    /\ upstream' = u
    /\ lookup' = get_mtg_card_info(u)
    /\ response' = mtg_card_tool_reply(card_name, get_mtg_card_info(u))
    /\ sent' = sent + 1
    /\ UNCHANGED <<request, card_name, get_params, outbound, served>>

\* the response is delivered and the worker takes the next request
finish ==
    /\ pc = "done"
    /\ pc' = "idle"
    /\ request' = NoRequest
    /\ card_name' = JNull
    /\ get_params' = <<>>
    /\ upstream' = NoOutcome
    /\ lookup' = NoResult
    /\ response' = NoResponse
    /\ sent' = 0
    /\ UNCHANGED <<outbound, served>>

Next ==
    \/ \E req \in Requests : receive(req)
    \/ mtg_card_tool_begin
    \/ \E u \in UpstreamOutcomes : mtg_card_tool_end(u)
    \/ finish

Spec == Init /\ [][Next]_vars

\* -------------------------------------------------------------- claims
\* the request's mimetype is application/json or application/<x>+json
JsonContentType ==
    /\ request.mimetype.main = "application"
    /\ request.mimetype \in { Mime("application", "json", ""),
                              Mime("application", "vnd.api", "json") }

\* the request's body is a JSON object with the key card_name
CardNamePresent ==
    /\ request.body.valid
    /\ request.body.json.t = "obj"
    /\ request.body.json.fields.card_name # Absent

\* the request is a POST of JSON with card_name present
LookupRequest == request.method = "POST" /\ JsonContentType /\ CardNamePresent

\* the upstream answered with a status raise_for_status lets through and a
\* JSON object whose `cards` is a non-empty array of which the first is an
\* object
FirstCardReturned ==
    /\ upstream.kind = "response"
    /\ upstream.status < 400
    /\ upstream.body.valid
    /\ upstream.body.json.t = "obj"
    /\ upstream.body.json.fields.cards.t = "arr"
    /\ Len(upstream.body.json.fields.cards.items) > 0
    /\ upstream.body.json.fields.cards.items[1].t = "obj"

\* a field of the first card, null when the card has no such field
FirstCardField(k) ==
    LET f == upstream.body.json.fields.cards.items[1].fields[k] IN
    IF f = Absent THEN JNull ELSE f

\* C1: a request whose method is not POST is answered 405 with the fixed
\* message, whatever its content type and body.
C1_NonPostIs405 ==
    (pc = "done" /\ request.method # "POST")
        => response = [status |-> 405,
                       body |-> [error |-> <<"Invalid request method. Please use POST.">>]]

\* a GET that passes every later check is still answered 405
C1_Witness ==
    /\ pc = "done"
    /\ request.method = "GET"
    /\ JsonContentType
    /\ CardNamePresent
    /\ response.status = 405

\* C2: a POST whose content type is not JSON is answered 415 with the fixed
\* message, whatever its body.
C2_NonJsonPostIs415 ==
    (pc = "done" /\ request.method = "POST" /\ ~JsonContentType)
        => response = [status |-> 415,
                       body |-> [error |-> <<"Invalid content type. Please send a JSON payload.">>]]

\* a text/json POST carrying card_name is still answered 415
C2_Witness ==
    /\ pc = "done"
    /\ request.method = "POST"
    /\ request.mimetype = Mime("text", "json", "")
    /\ CardNamePresent
    /\ response.status = 415

\* C3: a JSON POST whose body is malformed, or valid JSON of any shape
\* without a card_name key, is answered 400 with the fixed message.
C3_MissingCardNameIs400 ==
    (pc = "done" /\ request.method = "POST" /\ JsonContentType /\ ~CardNamePresent)
        => response = [status |-> 400,
                       body |-> [error |-> <<"Missing 'card_name' in JSON payload.">>]]

\* C4: for a JSON POST with card_name present the outbound GET is issued
\* exactly once, with that name, and never again while the request is served.
C4_LookupExactlyOnce ==
    LookupRequest =>
        /\ Len(get_params) <= 1
        /\ pc \in {"waiting", "done"} =>
              get_params = <<[name |-> request.body.json.fields.card_name]>>

\* the empty card name is looked up once, and the upstream call fails
C4_Witness ==
    /\ pc = "done"
    /\ LookupRequest
    /\ request.body.json.fields.card_name = JStr(<<>>)
    /\ upstream.kind = "exception"
    /\ Len(get_params) = 1

\* C5: a non-empty upstream `cards` array is answered 200 with the seven
\* fields of its first element, renamed, a missing field being null.
C5_FirstCardMapped ==
    (pc = "done" /\ FirstCardReturned)
        => response = [status |-> 200,
                       body |-> [name |-> FirstCardField("name"),
                                 mana_cost |-> FirstCardField("manaCost"),
                                 type |-> FirstCardField("type"),
                                 text |-> FirstCardField("text"),
                                 power |-> FirstCardField("power"),
                                 toughness |-> FirstCardField("toughness"),
                                 image_url |-> FirstCardField("imageUrl")]]

\* a first card without any field, followed by a full card, gives 200 with
\* every field null
C5_Witness ==
    /\ pc = "done"
    /\ FirstCardReturned
    /\ upstream.body.json.fields.cards.items = <<NoFields, SerraAngel>>
    /\ response.status = 200
    /\ response.body.name = JNull

\* the upstream call failed, or its body is malformed JSON, or its `cards`
\* array is empty
LookupMiss ==
    \/ upstream.kind = "exception"
    \/ upstream.kind = "response" /\ ~upstream.body.valid
    \/ /\ upstream.kind = "response"
       /\ upstream.body.valid
       /\ upstream.body.json.t = "obj"
       /\ upstream.body.json.fields.cards = JArr(<<>>)

\* C6: an empty `cards` array, a network failure and a malformed upstream
\* body are all answered 404 with the same message naming the card.
C6_MissesAre404 ==
    (pc = "done" /\ LookupMiss)
        => response =
             [status |-> 404,
              body |-> [error |-> <<"Card '">>
                                  \o PyStr(request.body.json.fields.card_name)
                                  \o <<"' not found or API is unavailable.">>]]

\* a malformed body under status 200 is answered 404 naming the card
C6_Witness ==
    /\ pc = "done"
    /\ upstream = Outcome("response", 200, Body(FALSE, JNull))
    /\ request.body.json.fields.card_name = JStr(<<"Nonexistent Card XYZ">>)
    /\ response.status = 404

\* C7: get_mtg_card_info never raises to its caller: it returns a CardInfo
\* or None for every upstream outcome.
C7_LookupNeverRaises == lookup.raised \in {"none", ""}

\* C8 as stated: under any upstream status outside 2xx no CardInfo is
\* returned and the answer is never 200.
C8_Non2xxIsNoResult ==
    (pc = "done" /\ upstream.kind = "response"
       /\ ~(200 <= upstream.status /\ upstream.status <= 299))
        => lookup.value = JNull /\ response.status # 200

\* C8 amended: under an upstream status 4xx or 5xx get_mtg_card_info returns
\* None whatever the body, and the answer is 404.
C8_ErrorStatusIsNoResult ==
    (pc = "done" /\ upstream.kind = "response"
       /\ 400 <= upstream.status /\ upstream.status <= 599)
        => lookup = [raised |-> "", value |-> JNull] /\ response.status = 404

\* a 404 carrying a full card is answered 404
C8_Witness ==
    /\ pc = "done"
    /\ upstream.status = 404
    /\ upstream.body.valid
    /\ upstream.body.json = UpObject(JArr(<<BlackLotus>>), Absent)
    /\ response.status = 404

\* C9: every request ends with exactly one response, whose status is 200,
\* 400, 404, 405 or 415.
C9_OneResponseKnownStatus ==
    pc = "done" => sent = 1 /\ response.status \in {200, 400, 404, 405, 415}

\* C10: a request answered 405, 415 or 400 issued no outbound GET and leaves
\* the count of outbound calls as it was.
C10_RejectedMakesNoCall ==
    [][(pc' = "done" /\ response'.status \in {400, 405, 415})
          => outbound' = outbound /\ get_params' = <<>>]_vars

\* a request is rejected after an earlier one made its outbound call
C10_Witness ==
    /\ pc = "done"
    /\ response.status = 400
    /\ get_params = <<>>
    /\ outbound = 1
    /\ served = 2

====
